---- MODULE Spec2Model ----
(***************************************************************************)
(* Model of the process-workflow step interpreter of                       *)
(* src/backend/src/common/workflow_executor.py: WorkflowExecutor           *)
(* (execute_workflow, resume_workflow, _execute_step) and the step         *)
(* handlers it dispatches to, together with the durable execution record   *)
(* the interpreter writes through workflow_execution_repo.                 *)
(***************************************************************************)
EXTENDS Naturals, Sequences, FiniteSets, TLC

VARIABLES
    workflow,         \* the ProcessWorkflow handed to execute_workflow
    workflow_repo,    \* ids of the workflows process_workflow_repo can load
    executions,       \* durable WorkflowExecutionDb rows, by execution id
    pc,               \* position of the execute_workflow call
    context,          \* StepContext of the run
    current_step_id,  \* local of execute_workflow
    final_status,     \* local of execute_workflow
    error_message,    \* local of execute_workflow
    success_count,    \* local of execute_workflow
    failure_count,    \* local of execute_workflow
    step,             \* the step resolved by the last loop iteration
    result,           \* StepResult of the last dispatched step
    dispatched,       \* history: the steps whose handler was invoked, in order
    raised,           \* history: the exception text the last dispatch caught
    returned,         \* what execute_workflow returned
    resume_call,      \* the last resume_workflow call and what it returned
    call,             \* the arguments of the execute_workflow call
    heap,             \* the tag mappings (Python dict objects), by reference
    tags_after,       \* history: the run's tag mapping after each dispatch
    other_context,     \* StepContext of a second, concurrent execution
    results,          \* history: the StepResult of each dispatch, in order
    updates           \* history: the update_status calls of the run, in order

vars == <<workflow, workflow_repo, executions, pc, context, current_step_id,
          final_status, error_message, success_count, failure_count, step,
          result, dispatched, raised, returned, resume_call, call, heap,
          tags_after, other_context, results, updates>>

run_vars == <<context, current_step_id, final_status, error_message,
              success_count, failure_count, step, result, dispatched, raised,
              heap, tags_after, results>>

-----------------------------------------------------------------------------
(* Bounds of the model *)

\* the interpreter loop is followed for at most this many handler dispatches
MaxDispatch == 2

\* Python's None
None == "<none>"

\* Python truthiness of an Optional[str]
Truthy(s) == s # None /\ s # ""

\* dict.get(key, default) on a config mapping
Get(cfg, k, d) == IF k \in DOMAIN cfg THEN cfg[k] ELSE d

\* the empty mapping {}
EmptyDict == [k \in {} |-> ""]

\* ', '.join(list)
RECURSIVE Join(_)
Join(seq) ==
    IF Len(seq) = 0 THEN ""
    ELSE IF Len(seq) = 1 THEN seq[1]
    ELSE seq[1] \o ", " \o Join(Tail(seq))

-----------------------------------------------------------------------------
(* ExecutionStatus / StepExecutionStatus values *)

RUNNING == "running"
SUCCEEDED == "succeeded"
FAILED == "failed"
PAUSED == "paused"

-----------------------------------------------------------------------------
(* StepResult *)

\* an Optional[Dict]: <<>> is None, <<d>> is the mapping d
NoData == <<>>

StepResult(passed, message, data, error, blocking) ==
    [passed |-> passed, message |-> message, data |-> data,
     error |-> error, blocking |-> blocking]

NoResult == StepResult(FALSE, None, NoData, None, FALSE)

-----------------------------------------------------------------------------
(* Step handlers.  env is what the handler's collaborators do during the   *)
(* call: env.eval is the verdict of the expression evaluator, env.fault    *)
(* the text of an exception raised during the call (None: nothing raised). *)

BoolStr(b) == IF b THEN "True" ELSE "False"

ApprovalStepHandler_resolve_approvers(approvers, ctx) ==
    IF approvers = "domain_owners" THEN <<"domain-owner@example.com">>
    ELSE IF approvers = "project_owners" THEN <<"project-owner@example.com">>
    ELSE IF approvers = "requester"
         THEN (IF Truthy(ctx.user_email) THEN <<ctx.user_email>> ELSE <<>>)
    \* a single address and a group name both resolve to the one-element list
    ELSE <<approvers>>

\* an approval step that requests the approval also without approvers
ApprovalStepHandler_execute_NoApproversCheck(config, ctx, env) ==
    LET approvers == Get(config, "approvers", "")
        resolved_approvers == ApprovalStepHandler_resolve_approvers(approvers, ctx)
    IN  StepResult(TRUE,
                   "Approval requested from: " \o Join(resolved_approvers),
                   <<[approvers |-> Join(resolved_approvers),
                      timeout_days |-> Get(config, "timeout_days", "7"),
                      require_all |-> Get(config, "require_all", "False"),
                      status |-> "pending"]>>,
                   None, TRUE)

\* an approval request that counts as not passed while it is pending
ApprovalStepHandler_execute_PendingFails(config, ctx, env) ==
    LET approvers == Get(config, "approvers", "")
        resolved_approvers == ApprovalStepHandler_resolve_approvers(approvers, ctx)
    IN  IF approvers = "" THEN
            StepResult(FALSE, None, NoData, "No approvers configured", FALSE)
        ELSE
            StepResult(FALSE,
                       "Approval requested from: " \o Join(resolved_approvers),
                       <<[approvers |-> Join(resolved_approvers),
                          timeout_days |-> Get(config, "timeout_days", "7"),
                          require_all |-> Get(config, "require_all", "False"),
                          status |-> "pending"]>>,
                       None, TRUE)

ApprovalStepHandler_execute(config, ctx, env) ==
    LET approvers == Get(config, "approvers", "")
        resolved_approvers == ApprovalStepHandler_resolve_approvers(approvers, ctx)
    IN  IF approvers = "" THEN
            StepResult(FALSE, None, NoData, "No approvers configured", FALSE)
        ELSE
            StepResult(TRUE,
                       "Approval requested from: " \o Join(resolved_approvers),
                       <<[approvers |-> Join(resolved_approvers),
                          timeout_days |-> Get(config, "timeout_days", "7"),
                          require_all |-> Get(config, "require_all", "False"),
                          status |-> "pending"]>>,
                       None, TRUE)

\* str(x) inside an f-string, on an Optional[str]
PyStr(x) == IF x = None THEN "None" ELSE x

NotificationStepHandler_resolve_recipients(recipients, ctx) ==
    IF recipients = "requester"
    THEN (IF Truthy(ctx.user_email) THEN <<ctx.user_email>> ELSE <<>>)
    \* context.entity.get('owner'): the entities of the model have no owner
    ELSE IF recipients = "owner" THEN <<>>
    \* a single address and a group name both resolve to the one-element list
    ELSE <<recipients>>

NotificationStepHandler_get_template_message(template, ctx) ==
    LET what == PyStr(ctx.entity_type) \o " '" \o PyStr(ctx.entity_name) \o "'"
    IN  CASE template = "validation_failed" -> "Validation failed for " \o what
          [] template = "validation_passed" -> "Validation passed for " \o what
          [] template = "product_approved" ->
                "Data product '" \o PyStr(ctx.entity_name) \o "' has been approved"
          [] template = "product_rejected" ->
                "Data product '" \o PyStr(ctx.entity_name) \o "' has been rejected"
          [] template = "approval_requested" -> "Approval requested for " \o what
          [] OTHER -> "Workflow notification for " \o PyStr(ctx.entity_name)

\* a notification that waits for its recipients to acknowledge
NotificationStepHandler_execute_Blocks(config, ctx, env) ==
    LET recipients == Get(config, "recipients", "")
        template == Get(config, "template", "")
        custom_message == Get(config, "custom_message", None)
        resolved_recipients ==
            NotificationStepHandler_resolve_recipients(recipients, ctx)
        message == IF Truthy(custom_message) THEN custom_message
                   ELSE NotificationStepHandler_get_template_message(template, ctx)
    IN  IF recipients = "" THEN
            StepResult(FALSE, None, NoData, "No recipients configured", FALSE)
        ELSE
            StepResult(TRUE,
                       "Notification sent to: " \o Join(resolved_recipients),
                       <<[recipients |-> Join(resolved_recipients),
                          template |-> template, message |-> message]>>,
                       None, TRUE)

NotificationStepHandler_execute(config, ctx, env) ==
    LET recipients == Get(config, "recipients", "")
        template == Get(config, "template", "")
        custom_message == Get(config, "custom_message", None)
        resolved_recipients ==
            NotificationStepHandler_resolve_recipients(recipients, ctx)
        message == IF Truthy(custom_message) THEN custom_message
                   ELSE NotificationStepHandler_get_template_message(template, ctx)
    IN  IF recipients = "" THEN
            StepResult(FALSE, None, NoData, "No recipients configured", FALSE)
        ELSE
            StepResult(TRUE,
                       "Notification sent to: " \o Join(resolved_recipients),
                       <<[recipients |-> Join(resolved_recipients),
                          template |-> template, message |-> message]>>,
                       None, FALSE)

\* DeliveryStepHandler.execute.  env.delivery is what the delivery service
\* does with the payload: "uninitialized" (get_delivery_service raises
\* RuntimeError), "all" (one mode, delivered), "some" (one of two modes
\* delivered), "none" (no mode delivered, the service reports no errors)
DeliveryStepHandler_execute(config, ctx, env) ==
    LET data == <<[change_type |-> Get(config, "change_type", "grant"),
                   outcome |-> env.delivery]>>
    IN  IF env.fault # None THEN
            StepResult(FALSE, None, NoData, env.fault, FALSE)
        ELSE IF env.delivery = "uninitialized" THEN
            StepResult(FALSE, None, NoData, "Delivery service not initialized", FALSE)
        ELSE IF env.delivery = "all" THEN
            StepResult(TRUE, "Delivered via 1 mode(s)", data, None, FALSE)
        ELSE IF env.delivery = "some" THEN
            StepResult(TRUE, "Partially delivered (1/2 modes succeeded)", data,
                       None, FALSE)
        ELSE
            StepResult(FALSE, None, data, "All delivery modes failed", FALSE)

\* the compliance policies self._db.get(CompliancePolicyDb, policy_id) finds:
\* an active and an inactive one
Policies ==
    ("p1" :> [name |-> "sized", is_active |-> TRUE, rule |-> "size>0",
              failure_message |-> "Too small"])
    @@ ("p0" :> [name |-> "retired", is_active |-> FALSE, rule |-> "size>0",
                 failure_message |-> None])

\* env.eval and env.message are what evaluate_rule_on_object returns
PolicyCheckStepHandler_execute(config, ctx, env) ==
    LET policy_id == Get(config, "policy_id", "")
    IN  IF policy_id = "" THEN
            StepResult(FALSE, None, NoData, "No policy_id configured", FALSE)
        ELSE IF env.fault # None THEN
            \* raised by the lookup or by the evaluation
            StepResult(FALSE, None, <<[policy_id |-> policy_id]>>, env.fault, FALSE)
        ELSE IF policy_id \notin DOMAIN Policies THEN
            StepResult(FALSE, None, <<[policy_id |-> policy_id]>>,
                       "Policy not found: " \o policy_id, FALSE)
        ELSE
            LET policy == Policies[policy_id]
                technical_message == env.message
                message == IF ~env.eval /\ Truthy(policy.failure_message)
                           THEN policy.failure_message \o "\n\nTechnical: "
                                   \o PyStr(technical_message)
                           ELSE technical_message
            IN  IF ~policy.is_active THEN
                    StepResult(TRUE,
                               "Policy '" \o policy.name \o "' is inactive, skipped",
                               <<[policy_id |-> policy_id,
                                  policy_name |-> policy.name,
                                  skipped |-> "True"]>>,
                               None, FALSE)
                ELSE
                    StepResult(env.eval, message,
                               <<[policy_id |-> policy_id,
                                  policy_name |-> policy.name,
                                  rule |-> policy.rule]>>,
                               None, FALSE)

ValidationStepHandler_execute(config, ctx, env) ==
    LET rule == Get(config, "rule", "")
    IN  IF rule = "" THEN
            StepResult(FALSE, None, NoData, "No rule configured", FALSE)
        ELSE IF env.fault # None THEN
            StepResult(FALSE, None, NoData, env.fault, FALSE)
        ELSE
            StepResult(env.eval, env.message, <<[rule |-> rule]>>, None, FALSE)

ConditionalStepHandler_execute(config, ctx, env) ==
    LET condition == Get(config, "condition", "")
    IN  IF condition = "" THEN
            StepResult(FALSE, None, NoData, "No condition configured", FALSE)
        ELSE IF env.fault # None THEN
            StepResult(FALSE, None, NoData, env.fault, FALSE)
        ELSE
            StepResult(env.eval,
                       "Condition evaluated to: " \o BoolStr(env.eval),
                       <<[condition |-> condition, result |-> BoolStr(env.eval)]>>,
                       None, FALSE)

PassStepHandler_execute(config, ctx, env) ==
    StepResult(TRUE, "Workflow completed successfully", NoData, None, FALSE)

FailStepHandler_execute(config, ctx, env) ==
    StepResult(FALSE, Get(config, "message", "Workflow failed"), NoData, None, FALSE)

\* the scripts of the model: the global name each one reads first (None: it
\* reads none) and what it leaves in `result` when it runs to its end
\* (absent: it assigns no result)
Scripts ==
    ("result = True" :> [reads |-> None, result |-> <<[passed |-> TRUE]>>])
    @@ ("result = False" :> [reads |-> None, result |-> <<[passed |-> FALSE]>>])
    @@ ("result = {'passed': False, 'message': 'bad'}" :>
            [reads |-> None, result |-> <<[passed |-> FALSE, message |-> "bad"]>>])
    @@ ("x = 1" :> [reads |-> None, result |-> <<>>])
    @@ ("result = 'tags' in entity" :>
            [reads |-> "entity", result |-> <<[passed |-> TRUE]>>])
    @@ ("result = step_results == {}" :>
            [reads |-> "step_results", result |-> <<[passed |-> TRUE]>>])

\* ScriptStepHandler._execute_python: exec(code, {'__builtins__': {}},
\* local_vars).  safe_globals is built and not handed to exec, so the script
\* sees no name of the context: reading one raises NameError, which the
\* handler turns into a failed result.  For a script outside Scripts what
\* its code leaves in `result` is an input: env.eval is the truth of the
\* result, env.message the mapping's message, env.fault what it raised
ScriptStepHandler_execute_python(code, ctx, env) ==
    IF code \in DOMAIN Scripts THEN
        IF Scripts[code].reads # None THEN
            StepResult(FALSE, None, NoData,
                       "name '" \o Scripts[code].reads \o "' is not defined", FALSE)
        ELSE IF Scripts[code].result = <<>> THEN
            \* local_vars.get('result', {'passed': True})
            StepResult(TRUE, None, NoData, None, FALSE)
        ELSE
            StepResult(Scripts[code].result[1].passed,
                       Get(Scripts[code].result[1], "message", None),
                       NoData, None, FALSE)
    ELSE IF env.fault # None THEN
        StepResult(FALSE, None, NoData, env.fault, FALSE)
    ELSE
        StepResult(env.eval, env.message, NoData, None, FALSE)

ScriptStepHandler_execute_sql(code, ctx, env) ==
    StepResult(TRUE, "SQL execution not yet implemented", <<[sql |-> code]>>,
               None, FALSE)

ScriptStepHandler_execute(config, ctx, env) ==
    LET language == Get(config, "language", "python")
        code == Get(config, "code", "")
    IN  IF code = "" THEN
            StepResult(FALSE, None, NoData, "No code configured", FALSE)
        ELSE IF language = "python" THEN
            ScriptStepHandler_execute_python(code, ctx, env)
        ELSE IF language = "sql" THEN
            ScriptStepHandler_execute_sql(code, ctx, env)
        ELSE
            StepResult(FALSE, None, NoData, "Unsupported language: " \o language,
                       FALSE)

\* the second operand whatever the first
PyOr_TakesSecond(a, b) == b

\* a or b on two Optional[str]
PyOr(a, b) == IF Truthy(a) THEN a ELSE b

AssignTagStepHandler_resolve_value_source(source, ctx, env) ==
    IF source = "current_user" THEN ctx.user_email
    ELSE IF source = "project_name"
         THEN PyOr(ctx.entity.project_name, ctx.entity.project_id)
    ELSE IF source = "entity_name" THEN ctx.entity_name
    ELSE IF source = "timestamp" THEN env.now
    ELSE None

\* the value an assign_tag step resolves
AssignTagStepHandler_resolved_value(config, ctx, env) ==
    IF Truthy(Get(config, "value_source", None))
    THEN AssignTagStepHandler_resolve_value_source(config["value_source"], ctx, env)
    ELSE Get(config, "value", None)

AssignTagStepHandler_execute(config, ctx, env) ==
    LET key == Get(config, "key", "")
        resolved_value == AssignTagStepHandler_resolved_value(config, ctx, env)
    IN  IF key = "" THEN
            StepResult(FALSE, None, NoData, "No tag key configured", FALSE)
        ELSE IF ~Truthy(resolved_value) THEN
            StepResult(FALSE, None, NoData, "Could not resolve tag value", FALSE)
        ELSE
            StepResult(TRUE, "Assigned tag " \o key \o "=" \o resolved_value,
                       <<[key |-> key, value |-> resolved_value]>>, None, FALSE)

\* a tag assignment that creates the entity's tag mapping before it knows
\* whether it has a key and a value
AssignTagStepHandler_effect_CreatesTagsFirst(config, ctx, hp, fresh, env) ==
    LET key == Get(config, "key", "")
        resolved_value == AssignTagStepHandler_resolved_value(config, ctx, env)
        entity1 == IF ctx.entity.tags = None
                   THEN [ctx.entity EXCEPT !.tags = fresh] ELSE ctx.entity
        hp1 == IF ctx.entity.tags = None THEN (fresh :> EmptyDict) @@ hp ELSE hp
    IN  IF key = "" \/ ~Truthy(resolved_value) THEN
            [entity |-> entity1, heap |-> hp1]
        ELSE
            [entity |-> entity1,
             heap |-> [hp1 EXCEPT ![entity1.tags] = (key :> resolved_value) @@ @]]

\* a tag assignment that keeps the values already assigned to the key
AssignTagStepHandler_effect_Accumulates(config, ctx, hp, fresh, env) ==
    LET key == Get(config, "key", "")
        resolved_value == AssignTagStepHandler_resolved_value(config, ctx, env)
        entity1 == IF ctx.entity.tags = None
                   THEN [ctx.entity EXCEPT !.tags = fresh] ELSE ctx.entity
        hp1 == IF ctx.entity.tags = None THEN (fresh :> EmptyDict) @@ hp ELSE hp
        old == hp1[entity1.tags]
    IN  IF key = "" \/ ~Truthy(resolved_value) THEN
            [entity |-> ctx.entity, heap |-> hp]
        ELSE
            [entity |-> entity1,
             heap |-> [hp1 EXCEPT ![entity1.tags] =
                         (key :> (IF key \in DOMAIN old
                                  THEN old[key] \o "," \o resolved_value
                                  ELSE resolved_value)) @@ @]]

\* what AssignTagStepHandler.execute does to context.entity and to the tag
\* mappings: hp maps the references of the tag mappings to their content,
\* fresh is the reference of a mapping created by the call
AssignTagStepHandler_effect(config, ctx, hp, fresh, env) ==
    LET key == Get(config, "key", "")
        resolved_value == AssignTagStepHandler_resolved_value(config, ctx, env)
        \* if 'tags' not in context.entity: context.entity['tags'] = {}
        entity1 == IF ctx.entity.tags = None
                   THEN [ctx.entity EXCEPT !.tags = fresh] ELSE ctx.entity
        hp1 == IF ctx.entity.tags = None THEN (fresh :> EmptyDict) @@ hp ELSE hp
    IN  IF key = "" \/ ~Truthy(resolved_value) THEN
            [entity |-> ctx.entity, heap |-> hp]
        ELSE
            \* context.entity['tags'][key] = resolved_value
            [entity |-> entity1,
             heap |-> [hp1 EXCEPT ![entity1.tags] = (key :> resolved_value) @@ @]]

RemoveTagStepHandler_execute(config, ctx, env) ==
    LET key == Get(config, "key", "")
    IN  IF key = "" THEN
            StepResult(FALSE, None, NoData, "No tag key configured", FALSE)
        ELSE
            StepResult(TRUE, "Removed tag " \o key, <<[key |-> key]>>, None, FALSE)

\* what RemoveTagStepHandler.execute does to the tag mappings
RemoveTagStepHandler_effect(config, ctx, hp, fresh, env) ==
    LET key == Get(config, "key", "")
        ref == ctx.entity.tags
    IN  IF key # "" /\ ref # None /\ key \in DOMAIN hp[ref] THEN
            \* del context.entity['tags'][key]
            [entity |-> ctx.entity,
             heap |-> [hp EXCEPT ![ref] = [k \in DOMAIN @ \ {key} |-> @[k]]]]
        ELSE
            [entity |-> ctx.entity, heap |-> hp]

\* WorkflowExecutor.HANDLERS: the registered step kinds
HANDLERS ==
    {"validation", "approval", "notification", "assign_tag", "remove_tag",
     "conditional", "script", "pass", "fail", "policy_check", "delivery"}

\* handler_class(self._db, step.config or {}).execute(context)
HandlerExecute(step_type, config, ctx, env) ==
    CASE step_type = "approval" -> ApprovalStepHandler_execute(config, ctx, env)
      [] step_type = "validation" -> ValidationStepHandler_execute(config, ctx, env)
      [] step_type = "conditional" -> ConditionalStepHandler_execute(config, ctx, env)
      [] step_type = "pass" -> PassStepHandler_execute(config, ctx, env)
      [] step_type = "fail" -> FailStepHandler_execute(config, ctx, env)
      [] step_type = "script" -> ScriptStepHandler_execute(config, ctx, env)
      [] step_type = "assign_tag" -> AssignTagStepHandler_execute(config, ctx, env)
      [] step_type = "remove_tag" -> RemoveTagStepHandler_execute(config, ctx, env)
      [] step_type = "notification" -> NotificationStepHandler_execute(config, ctx, env)
      [] step_type = "policy_check" -> PolicyCheckStepHandler_execute(config, ctx, env)
      [] step_type = "delivery" -> DeliveryStepHandler_execute(config, ctx, env)

\* what handler.execute(context) does to context.entity and the tag mappings
HandlerEffect(step_type, config, ctx, hp, fresh, env) ==
    CASE step_type = "assign_tag" ->
            AssignTagStepHandler_effect(config, ctx, hp, fresh, env)
      [] step_type = "remove_tag" ->
            RemoveTagStepHandler_effect(config, ctx, hp, fresh, env)
      [] OTHER -> [entity |-> ctx.entity, heap |-> hp]

\* _execute_step whose except clause drops the text of the exception
ExecuteStep_DropsFaultText(s, ctx, env) ==
    IF s.step_type \notin HANDLERS THEN
        StepResult(FALSE, None, NoData, "Unknown step type: " \o s.step_type, FALSE)
    ELSE IF env.raises /\ env.fault # None THEN
        StepResult(FALSE, None, NoData, None, FALSE)
    ELSE
        HandlerExecute(s.step_type, s.config, ctx, env)

\* a step of an unregistered kind treated as a step that does nothing
ExecuteStep_SkipsUnknownKind(s, ctx, env) ==
    IF s.step_type \notin HANDLERS THEN
        StepResult(TRUE, None, NoData, None, FALSE)
    ELSE IF env.raises /\ env.fault # None THEN
        StepResult(FALSE, None, NoData, env.fault, FALSE)
    ELSE
        HandlerExecute(s.step_type, s.config, ctx, env)

\* WorkflowExecutor._execute_step.  env.raises: the exception env.fault is
\* raised outside the handler's own try block (handler construction, the
\* imports at the top of execute) and reaches _execute_step's except clause.
ExecuteStep(s, ctx, env) ==
    IF s.step_type \notin HANDLERS THEN
        StepResult(FALSE, None, NoData, "Unknown step type: " \o s.step_type, FALSE)
    ELSE IF env.raises /\ env.fault # None THEN
        StepResult(FALSE, None, NoData, env.fault, FALSE)
    ELSE
        HandlerExecute(s.step_type, s.config, ctx, env)

\* what _execute_step does to context.entity and the tag mappings: nothing
\* when no handler is registered or the call raised before the handler ran
ExecuteStepEffect(s, ctx, hp, fresh, env) ==
    IF s.step_type \notin HANDLERS \/ (env.raises /\ env.fault # None) THEN
        [entity |-> ctx.entity, heap |-> hp]
    ELSE
        HandlerEffect(s.step_type, s.config, ctx, hp, fresh, env)

-----------------------------------------------------------------------------
(* Workflow definitions handed to the interpreter *)

\* the database ids (WorkflowStep.id) of the steps, by position
StepDbIds == <<"u1", "u2">>

\* the workflow-local step ids (WorkflowStep.step_id) of the steps, by position
StepIdAt == <<"s1", "s2">>

StepIds == {StepIdAt[i] : i \in 1..Len(StepIdAt)}

\* a step id no step of the workflow carries
DanglingId == "zz"

\* what on_pass / on_fail can hold
Refs == StepIds \cup {None, DanglingId}

\* the (step_type, config) pairs of the steps
StepShapes ==
    {<<"approval", [approvers |-> "requester"]>>,
     <<"conditional", [condition |-> "c"]>>,
     <<"fail", EmptyDict>>}

WorkflowStep(id, step_id, shape, on_pass, on_fail) ==
    [id |-> id, step_id |-> step_id, step_type |-> shape[1], config |-> shape[2],
     on_pass |-> on_pass, on_fail |-> on_fail]

StepChoices == [shape : StepShapes, on_pass : Refs, on_fail : Refs]

\* the step sequences of length n whose steps are drawn from choices
StepSeqsOf(n, choices) ==
    {[i \in 1..n |-> WorkflowStep(StepDbIds[i], StepIdAt[i], f[i].shape,
                                  f[i].on_pass, f[i].on_fail)] :
        f \in [1..n -> choices]}

StepSeqs(n) == StepSeqsOf(n, StepChoices)

\* the workflows whose steps are drawn from choices
WorkflowsOf(choices) ==
    {[id |-> "w1", name |-> "wf", steps |-> ss] :
        ss \in UNION {StepSeqsOf(n, choices) : n \in 0..Len(StepDbIds)}}

Workflows == WorkflowsOf(StepChoices)

\* steps_by_id = {s.step_id: s for s in workflow.steps}: the last step
\* carrying an id is the one the index holds
StepsById(wf) ==
    [sid \in {wf.steps[i].step_id : i \in 1..Len(wf.steps)} |->
        LET last == CHOOSE i \in 1..Len(wf.steps) :
                        /\ wf.steps[i].step_id = sid
                        /\ \A j \in 1..Len(wf.steps) :
                               wf.steps[j].step_id = sid => j <= i
        IN  wf.steps[last]]

\* what the expression evaluator and the runtime can do during one dispatch
\* datetime.utcnow().isoformat() at two moments
Times == <<"2026-01-01T00:00:00", "2026-01-01T00:00:01">>

Envs ==
    {e \in [eval : BOOLEAN, message : {None, "rule message"},
            fault : {None, "boom"}, raises : BOOLEAN,
            now : {Times[i] : i \in 1..Len(Times)}] :
        /\ e.raises => e.fault # None
        \* a call that raises delivers no verdict
        /\ e.fault # None => (~e.eval /\ e.message = None /\ e.now = Times[1])}

\* the callers' user_email
\* the entity_type argument of the execute_workflow calls
EntityType == "data_product"

UserEmails == {None, "u@x.com"}

\* the reference of the tag mapping inside the caller's entity, of the one
\* the run creates, and of the one a second execution creates
CallerTags == "T0"
RunTags == "T1"
OtherTags == "T2"

\* an entity mapping: the keys the handlers read, None for a missing key;
\* tags holds the reference of the nested tag mapping
Entity(project_name, project_id, tags) ==
    [project_name |-> project_name, project_id |-> project_id, tags |-> tags]

\* the tag mapping reachable from an entity: <<>> without a tags key
TagsOf(entity, hp) == IF entity.tags = None THEN <<>> ELSE <<hp[entity.tags]>>

\* entity.copy(): a new mapping with the same values; the nested tag
\* mapping is the same object
EntityCopy(entity) ==
    [project_name |-> entity.project_name, project_id |-> entity.project_id,
     tags |-> entity.tags]

\* the arguments of an execute_workflow call; tags_at_call keeps what the
\* caller's tag mapping was when the call was made
Call(entity, entity_name, blocking, hp) ==
    [entity |-> entity, entity_name |-> entity_name, blocking |-> blocking,
     tags_at_call |-> TagsOf(entity, hp)]

\* a call with an entity without tags and the default blocking=True
PlainCall == Call(Entity(None, None, None), None, TRUE, <<>>)

-----------------------------------------------------------------------------
(* workflow_execution_repo: the durable execution rows *)

ExecutionId == "e1"

\* an execution id no row carries
UnknownExecutionId == "e9"

Repo_create(execs, id, workflow_id, triggered_by) ==
    (id :> [id |-> id, workflow_id |-> workflow_id, status |-> RUNNING,
            current_step_id |-> None, success_count |-> 0, failure_count |-> 0,
            error_message |-> None, finished_at |-> None,
            triggered_by |-> triggered_by, step_executions |-> <<>>]) @@ execs

Repo_add_step_execution(execs, id, step_id, status, passed, result_data, err) ==
    [execs EXCEPT ![id].step_executions =
        Append(@, [step_id |-> step_id, status |-> status, passed |-> passed,
                   result_data |-> result_data, error_message |-> err])]

\* an argument left out (None) leaves the column as it is
Repo_update_status(execs, id, status, cur, succ, fail, err, finished_at) ==
    [execs EXCEPT ![id] =
        [@ EXCEPT !.status = status,
                  !.current_step_id = IF cur # None THEN cur ELSE @,
                  !.success_count = succ,
                  !.failure_count = fail,
                  !.error_message = IF err # None THEN err ELSE @,
                  !.finished_at = IF finished_at # None THEN finished_at ELSE @]]

\* an Optional row: <<>> is None
Repo_get(execs, id) == IF id \in DOMAIN execs THEN <<execs[id]>> ELSE <<>>

\* WorkflowExecutor._db_to_model
DbToModel(row, workflow_name) ==
    [id |-> row.id, workflow_id |-> row.workflow_id, status |-> row.status,
     current_step_id |-> row.current_step_id,
     success_count |-> row.success_count, failure_count |-> row.failure_count,
     error_message |-> row.error_message, finished_at |-> row.finished_at,
     triggered_by |-> row.triggered_by,
     step_executions |->
        [i \in 1..Len(row.step_executions) |->
            [step_id |-> row.step_executions[i].step_id,
             status |-> row.step_executions[i].status,
             passed |-> row.step_executions[i].passed,
             result_data |-> row.step_executions[i].result_data,
             error_message |-> row.step_executions[i].error_message]],
     workflow_name |-> workflow_name]

-----------------------------------------------------------------------------
(* The state machine *)

NoStep == WorkflowStep(None, None, <<None, EmptyDict>>, None, None)

\* the state before execute_workflow(wf, ...) is called with the arguments c,
\* the tag mappings being hp
InitRun(wf, c, hp) ==
    /\ workflow = wf
    /\ call = c
    /\ heap = hp
    /\ tags_after = <<>>
    /\ other_context = <<>>
    /\ results = <<>>
    /\ updates = <<>>
    /\ workflow_repo = {wf.id}
    /\ executions = <<>>
    /\ pc = "start"
    /\ context = [entity |-> Entity(None, None, None), entity_name |-> None,
                  entity_type |-> None,
                  user_email |-> None, execution_id |-> None,
                  workflow_id |-> None, workflow_name |-> None,
                  step_results |-> <<>>]
    /\ current_step_id = None
    /\ final_status = RUNNING
    /\ error_message = None
    /\ success_count = 0
    /\ failure_count = 0
    /\ step = NoStep
    /\ result = NoResult
    /\ dispatched = <<>>
    /\ raised = None
    /\ returned = <<>>
    /\ resume_call = <<>>

Init == \E wf \in Workflows : InitRun(wf, PlainCall, <<>>)

\* execute_workflow up to the loop: the execution row, the context, the
\* step index and the loop's locals
StartExecute(user_email) ==
    /\ pc = "start"
    /\ executions' = Repo_create(executions, ExecutionId, workflow.id, user_email)
    /\ context' = [entity |-> EntityCopy(call.entity),
                   entity_name |-> call.entity_name,
                   entity_type |-> EntityType,
                   user_email |-> user_email, execution_id |-> ExecutionId,
                   workflow_id |-> workflow.id, workflow_name |-> workflow.name,
                   step_results |-> <<>>]
    /\ success_count' = 0
    /\ failure_count' = 0
    /\ current_step_id' = IF Len(workflow.steps) > 0
                          THEN workflow.steps[1].step_id ELSE None
    /\ final_status' = RUNNING
    /\ error_message' = None
    /\ pc' = "loop"
    /\ UNCHANGED <<workflow, updates, call, other_context, workflow_repo, step, result, results, dispatched, raised, heap, tags_after, returned,
                   resume_call>>

\* while current_step_id: the loop condition is false
LoopExit ==
    /\ pc = "loop"
    /\ ~Truthy(current_step_id)
    /\ pc' = "finalize"
    /\ UNCHANGED <<workflow, updates, call, other_context, workflow_repo, executions, run_vars, returned,
                   resume_call>>

\* a missing step that ends the loop without setting the final status
StepNotFound_KeepsStatus ==
    /\ pc = "loop"
    /\ Truthy(current_step_id)
    /\ current_step_id \notin DOMAIN StepsById(workflow)
    /\ error_message' = "Step not found: " \o current_step_id
    /\ pc' = "finalize"
    /\ UNCHANGED <<workflow, updates, call, other_context, workflow_repo, executions,
                   context, current_step_id, final_status, success_count,
                   failure_count, step, result, results, dispatched, raised, heap,
                   tags_after, returned, resume_call>>

\* a missing step that is tallied as a failed step
StepNotFound_CountsFailure ==
    /\ pc = "loop"
    /\ Truthy(current_step_id)
    /\ current_step_id \notin DOMAIN StepsById(workflow)
    /\ error_message' = "Step not found: " \o current_step_id
    /\ final_status' = FAILED
    /\ failure_count' = failure_count + 1
    /\ pc' = "finalize"
    /\ UNCHANGED <<workflow, updates, call, other_context, workflow_repo, executions, context, current_step_id,
                   success_count, step, result, results, dispatched, raised, heap, tags_after, returned, resume_call>>

\* steps_by_id.get(current_step_id) finds nothing
StepNotFound ==
    /\ pc = "loop"
    /\ Truthy(current_step_id)
    /\ current_step_id \notin DOMAIN StepsById(workflow)
    /\ error_message' = "Step not found: " \o current_step_id
    /\ final_status' = FAILED
    /\ pc' = "finalize"
    /\ UNCHANGED <<workflow, updates, call, other_context, workflow_repo, executions, context, current_step_id,
                   success_count, failure_count, step, result, results, dispatched, raised, heap, tags_after,
                   returned, resume_call>>

\* result = self._execute_step(step, context)
DispatchStep(env) ==
    /\ pc = "loop"
    /\ Truthy(current_step_id)
    /\ current_step_id \in DOMAIN StepsById(workflow)
    /\ Len(dispatched) < MaxDispatch
    /\ step' = StepsById(workflow)[current_step_id]
    /\ result' = ExecuteStep(step', context, env)
    /\ LET effect == ExecuteStepEffect(step', context, heap, RunTags, env)
       IN  /\ context' = [context EXCEPT !.entity = effect.entity]
           /\ heap' = effect.heap
    /\ tags_after' = Append(tags_after, TagsOf(context'.entity, heap'))
    /\ dispatched' = Append(dispatched, step')
    /\ results' = Append(results, result')
    /\ raised' = IF env.raises /\ step'.step_type \in HANDLERS THEN env.fault ELSE None
    /\ pc' = "record"
    /\ UNCHANGED <<workflow, updates, call, other_context, workflow_repo, executions,
                   current_step_id, final_status, error_message, success_count,
                   failure_count, returned, resume_call>>

\* a step record written only for the steps that do not pause the run
RecordStepExecution_SkipsBlocking ==
    /\ pc = "record"
    /\ executions' =
         IF result.blocking THEN executions
         ELSE Repo_add_step_execution(
                 executions, ExecutionId, step.id,
                 IF result.passed THEN SUCCEEDED ELSE FAILED,
                 result.passed, result.data, result.error)
    /\ pc' = "update"
    /\ UNCHANGED <<workflow, updates, call, other_context, workflow_repo, run_vars, returned, resume_call>>

\* a step record put in front of the records already written
RecordStepExecution_Prepends ==
    /\ pc = "record"
    /\ executions' =
         [executions EXCEPT ![ExecutionId].step_executions =
             <<[step_id |-> step.id,
                status |-> IF result.passed THEN SUCCEEDED ELSE FAILED,
                passed |-> result.passed, result_data |-> result.data,
                error_message |-> result.error]>> \o @]
    /\ pc' = "update"
    /\ UNCHANGED <<workflow, updates, call, other_context, workflow_repo, run_vars, returned, resume_call>>

\* workflow_execution_repo.add_step_execution(...)
RecordStepExecution ==
    /\ pc = "record"
    /\ executions' = Repo_add_step_execution(
                        executions, ExecutionId, step.id,
                        IF result.passed THEN SUCCEEDED ELSE FAILED,
                        result.passed, result.data, result.error)
    /\ pc' = "update"
    /\ UNCHANGED <<workflow, updates, call, other_context, workflow_repo, run_vars, returned, resume_call>>

\* a store that keeps the entry a step id already has
StoreStepResult_KeepsFirst(ctx, s, r) ==
    [ctx EXCEPT !.step_results =
        @ @@ (s.step_id :> [passed |-> r.passed, message |-> r.message,
                            data |-> r.data])]

\* context.step_results[step.step_id] = {...}
StoreStepResult(ctx, s, r) ==
    [ctx EXCEPT !.step_results =
        (s.step_id :> [passed |-> r.passed, message |-> r.message,
                       data |-> r.data]) @@ @]

\* a success counter that counts every step
SuccessCountAfter_CountsAll(n, r) == n + 1

\* Update counters
SuccessCountAfter(n, r) == IF r.passed THEN n + 1 ELSE n

\* counters that tally a failure only when the step reported an error
FailureCountAfter_OnlyErrors(n, r) ==
    IF ~r.passed /\ Truthy(r.error) THEN n + 1 ELSE n

FailureCountAfter(n, r) == IF r.passed THEN n ELSE n + 1

\* a branch choice that takes on_pass only for a passed result with a message
NextStepId_NeedsMessage(s, r) ==
    IF r.passed /\ Truthy(r.message) THEN s.on_pass ELSE s.on_fail

\* a branch choice with the two branches exchanged
NextStepId_Exchanged(s, r) == IF r.passed THEN s.on_fail ELSE s.on_pass

\* a failing step without on_fail that falls back to its on_pass
NextStepId_FallsBackToOnPass(s, r) ==
    IF r.passed THEN s.on_pass ELSE PyOr(s.on_fail, s.on_pass)

\* Determine next step
NextStepId(s, r) == IF r.passed THEN s.on_pass ELSE s.on_fail

\* the arguments of one workflow_execution_repo.update_status call
UpdateStatusCall(status, success, failure, message, finished_at) ==
    [status |-> status, success_count |-> success, failure_count |-> failure,
     error_message |-> message, finished_at |-> finished_at]

\* a pause that persists the step's database id as current_step_id
PauseExecution_PersistsDbId ==
    /\ pc = "update"
    /\ result.blocking
    /\ context' = StoreStepResult(context, step, result)
    /\ success_count' = SuccessCountAfter(success_count, result)
    /\ failure_count' = FailureCountAfter(failure_count, result)
    /\ final_status' = PAUSED
    /\ executions' = Repo_update_status(executions, ExecutionId, PAUSED,
                                        step.id, success_count',
                                        failure_count', None, None)
    /\ updates' = Append(updates, UpdateStatusCall(PAUSED, success_count',
                                                   failure_count', None, None))
    /\ pc' = "finalize"
    /\ UNCHANGED <<workflow, call, other_context, workflow_repo, current_step_id, error_message, step,
                   result, results, dispatched, raised, heap, tags_after, returned, resume_call>>

\* a pause that persists PAUSED and lets the loop go on to the next step
PauseExecution_KeepsRunning ==
    /\ pc = "update"
    /\ result.blocking
    /\ context' = StoreStepResult(context, step, result)
    /\ success_count' = SuccessCountAfter(success_count, result)
    /\ failure_count' = FailureCountAfter(failure_count, result)
    /\ final_status' = PAUSED
    /\ executions' = Repo_update_status(executions, ExecutionId, PAUSED,
                                        current_step_id, success_count',
                                        failure_count', None, None)
    /\ updates' = Append(updates, UpdateStatusCall(PAUSED, success_count',
                                                   failure_count', None, None))
    /\ current_step_id' = NextStepId(step, result)
    /\ pc' = "loop"
    /\ UNCHANGED <<workflow, call, other_context, workflow_repo, error_message, step,
                   result, results, dispatched, raised, heap, tags_after, returned, resume_call>>

\* the step result is stored, the counters are updated, and a blocking
\* result pauses the execution
PauseExecution ==
    /\ pc = "update"
    /\ result.blocking
    /\ context' = StoreStepResult(context, step, result)
    /\ success_count' = SuccessCountAfter(success_count, result)
    /\ failure_count' = FailureCountAfter(failure_count, result)
    /\ final_status' = PAUSED
    /\ executions' = Repo_update_status(executions, ExecutionId, PAUSED,
                                        current_step_id, success_count',
                                        failure_count', None, None)
    /\ updates' = Append(updates, UpdateStatusCall(PAUSED, success_count',
                                                   failure_count', None, None))
    /\ pc' = "finalize"
    /\ UNCHANGED <<workflow, call, other_context, workflow_repo, current_step_id, error_message, step,
                   result, results, dispatched, raised, heap, tags_after, returned, resume_call>>

\* a branch choice that uses up the branch it takes: the reference is
\* cleared in the workflow definition
ChooseNextStep_ConsumesBranch ==
    /\ pc = "update"
    /\ ~result.blocking
    /\ context' = StoreStepResult(context, step, result)
    /\ success_count' = SuccessCountAfter(success_count, result)
    /\ failure_count' = FailureCountAfter(failure_count, result)
    /\ current_step_id' = NextStepId(step, result)
    /\ workflow' =
         [workflow EXCEPT !.steps =
             [i \in 1..Len(workflow.steps) |->
                 IF workflow.steps[i] # step THEN workflow.steps[i]
                 ELSE IF result.passed THEN [step EXCEPT !.on_pass = None]
                 ELSE [step EXCEPT !.on_fail = None]]]
    /\ IF ~Truthy(current_step_id')
       THEN IF result.passed
            THEN final_status' = SUCCEEDED /\ error_message' = error_message
            ELSE final_status' = FAILED
                 /\ error_message' = PyOr(result.message, result.error)
       ELSE UNCHANGED <<final_status, error_message>>
    /\ pc' = "loop"
    /\ UNCHANGED <<updates, call, other_context, workflow_repo, executions, step, result, results, dispatched, raised, heap, tags_after,
                   returned, resume_call>>

\* a branch choice that keeps the text of every failed step as the error
\* of the run, also when the run continues along on_fail
ChooseNextStep_KeepsError ==
    /\ pc = "update"
    /\ ~result.blocking
    /\ context' = StoreStepResult(context, step, result)
    /\ success_count' = SuccessCountAfter(success_count, result)
    /\ failure_count' = FailureCountAfter(failure_count, result)
    /\ current_step_id' = NextStepId(step, result)
    /\ error_message' = IF result.passed THEN error_message
                        ELSE PyOr(result.message, result.error)
    /\ IF ~Truthy(current_step_id')
       THEN IF result.passed
            THEN final_status' = SUCCEEDED
            ELSE final_status' = FAILED
       ELSE UNCHANGED final_status
    /\ pc' = "loop"
    /\ UNCHANGED <<workflow, updates, call, other_context, workflow_repo, executions, step, result, results, dispatched, raised, heap, tags_after,
                   returned, resume_call>>

\* the step result is stored, the counters are updated, and the next step
\* is chosen from on_pass / on_fail
ChooseNextStep ==
    /\ pc = "update"
    /\ ~result.blocking
    /\ context' = StoreStepResult(context, step, result)
    /\ success_count' = SuccessCountAfter(success_count, result)
    /\ failure_count' = FailureCountAfter(failure_count, result)
    /\ current_step_id' = NextStepId(step, result)
    /\ IF ~Truthy(current_step_id')
       THEN IF result.passed
            THEN final_status' = SUCCEEDED /\ error_message' = error_message
            ELSE final_status' = FAILED
                 /\ error_message' = PyOr(result.message, result.error)
       ELSE UNCHANGED <<final_status, error_message>>
    /\ pc' = "loop"
    /\ UNCHANGED <<workflow, updates, call, other_context, workflow_repo, executions, step, result, results, dispatched, raised, heap, tags_after,
                   returned, resume_call>>

\* a finalization that also rewrites the row of a paused run
Finalize_AlsoPaused ==
    /\ pc = "finalize"
    /\ executions' = Repo_update_status(executions, ExecutionId, final_status,
                                        None, success_count, failure_count,
                                        error_message, "now")
    /\ updates' = Append(updates, UpdateStatusCall(final_status, success_count,
                                                   failure_count, error_message,
                                                   "now"))
    /\ pc' = "return"
    /\ UNCHANGED <<workflow, call, other_context, workflow_repo, run_vars, returned, resume_call>>

\* Finalize execution
Finalize ==
    /\ pc = "finalize"
    /\ executions' =
         IF final_status # PAUSED
         THEN Repo_update_status(executions, ExecutionId, final_status, None,
                                 success_count, failure_count, error_message,
                                 "now")
         ELSE executions
    /\ updates' =
         IF final_status # PAUSED
         THEN Append(updates, UpdateStatusCall(final_status, success_count,
                                               failure_count, error_message, "now"))
         ELSE updates
    /\ pc' = "return"
    /\ UNCHANGED <<workflow, call, other_context, workflow_repo, run_vars, returned, resume_call>>

\* return self._db_to_model(workflow_execution_repo.get(...), workflow.name)
ReturnExecution ==
    /\ pc = "return"
    /\ returned' = <<DbToModel(Repo_get(executions, ExecutionId)[1], workflow.name)>>
    /\ pc' = "done"
    /\ UNCHANGED <<workflow, updates, call, other_context, workflow_repo, executions, run_vars, resume_call>>

\* a resume that does not look at the status of the execution
ResumeWorkflow_NoStatusCheck(execution_id, step_result) ==
    /\ pc = "done"
    /\ LET db_execution == Repo_get(executions, execution_id)
           ret == IF db_execution = <<>> THEN <<>>
                  ELSE IF db_execution[1].workflow_id \notin workflow_repo THEN <<>>
                  ELSE <<DbToModel(db_execution[1], workflow.name)>>
       IN  resume_call' = <<[execution_id |-> execution_id,
                             step_result |-> step_result, ret |-> ret]>>
    /\ UNCHANGED <<workflow, updates, call, other_context, workflow_repo, executions, pc, run_vars, returned>>

\* WorkflowExecutor.resume_workflow
ResumeWorkflow(execution_id, step_result) ==
    /\ pc = "done"
    /\ LET db_execution == Repo_get(executions, execution_id)
           ret == IF db_execution = <<>> THEN <<>>
                  ELSE IF db_execution[1].status # "paused" THEN <<>>
                  ELSE IF db_execution[1].workflow_id \notin workflow_repo THEN <<>>
                  ELSE <<DbToModel(db_execution[1], workflow.name)>>
       IN  resume_call' = <<[execution_id |-> execution_id,
                             step_result |-> step_result, ret |-> ret]>>
    /\ UNCHANGED <<workflow, updates, call, other_context, workflow_repo, executions, pc, run_vars, returned>>

\* the workflow is deleted from the workflow repository
DeleteWorkflow ==
    /\ pc = "done"
    /\ workflow_repo # {}
    /\ workflow_repo' = {}
    /\ UNCHANGED <<workflow, updates, call, other_context, executions, pc, run_vars, returned, resume_call>>

Next ==
    \/ \E user_email \in UserEmails : StartExecute(user_email)
    \/ LoopExit
    \/ StepNotFound
    \/ \E env \in Envs : DispatchStep(env)
    \/ RecordStepExecution
    \/ PauseExecution
    \/ ChooseNextStep
    \/ Finalize
    \/ ReturnExecution
    \/ \E execution_id \in {ExecutionId, UnknownExecutionId}, step_result \in BOOLEAN :
           ResumeWorkflow(execution_id, step_result)
    \/ DeleteWorkflow

Spec == Init /\ [][Next]_vars

-----------------------------------------------------------------------------
(* Runs of workflows of assign_tag / remove_tag steps on entities with and *)
(* without a tag mapping                                                   *)

TagShapes ==
    {<<"assign_tag", [key |-> "k", value |-> "v"]>>,
     <<"assign_tag", [key |-> "k", value_source |-> "current_user"]>>,
     <<"assign_tag", [key |-> "k", value_source |-> "project_name"]>>,
     <<"assign_tag", [key |-> "k", value_source |-> "entity_name"]>>,
     <<"assign_tag", [key |-> "k", value_source |-> "timestamp"]>>,
     <<"assign_tag", [key |-> "k", value_source |-> "owner"]>>,
     <<"assign_tag", [value |-> "v"]>>,
     <<"remove_tag", [key |-> "k"]>>,
     <<"remove_tag", EmptyDict>>}

TagStepChoices == [shape : TagShapes, on_pass : StepIds \cup {None}, on_fail : {None}]

\* the caller's entity, its name and its tag mappings
TagCalls ==
    {<<Entity(None, None, None), None, <<>>>>,
     <<Entity("proj", None, CallerTags), "orders", (CallerTags :> EmptyDict)>>,
     <<Entity(None, "p1", CallerTags), "orders", (CallerTags :> ("k" :> "old"))>>}

InitTags ==
    \E wf \in WorkflowsOf(TagStepChoices), c \in TagCalls :
        InitRun(wf, Call(c[1], c[2], TRUE, c[3]), c[3])

NextTags ==
    \/ \E user_email \in UserEmails : StartExecute(user_email)
    \/ LoopExit
    \/ \E env \in Envs : DispatchStep(env)
    \/ RecordStepExecution
    \/ ChooseNextStep
    \/ Finalize
    \/ ReturnExecution

SpecTags == InitTags /\ [][NextTags]_vars

-----------------------------------------------------------------------------
(* Runs of workflows of validation, script, fail and approval steps, called *)
(* with blocking=True and with blocking=False                               *)

KindShapes ==
    {<<"validation", [rule |-> "size>0"]>>,
     <<"script", [code |-> "result = False"]>>,
     <<"script", [code |-> "puts 1", language |-> "ruby"]>>,
     <<"fail", EmptyDict>>,
     <<"fail", [message |-> "rejected"]>>,
     <<"approval", [approvers |-> "requester"]>>}

KindStepChoices ==
    [shape : KindShapes, on_pass : {None, StepIdAt[2]},
     on_fail : {None, StepIdAt[2], DanglingId}]

InitKinds ==
    \E wf \in WorkflowsOf(KindStepChoices), blocking \in BOOLEAN :
        InitRun(wf, Call(Entity(None, None, None), None, blocking, <<>>), <<>>)

NextKinds ==
    \/ \E user_email \in UserEmails : StartExecute(user_email)
    \/ LoopExit
    \/ StepNotFound
    \/ \E env \in Envs : DispatchStep(env)
    \/ RecordStepExecution
    \/ PauseExecution
    \/ ChooseNextStep
    \/ Finalize
    \/ ReturnExecution

SpecKinds == InitKinds /\ [][NextKinds]_vars

-----------------------------------------------------------------------------
(* Two executions started from the same caller entity and interleaved step *)
(* by step: the run followed by the other variables, and a second call of  *)
(* execute_workflow of which only the context is followed                  *)

ConcShapes ==
    {<<"assign_tag", [key |-> "k", value |-> "v"]>>,
     <<"remove_tag", [key |-> "k"]>>}

ConcStepChoices == [shape : ConcShapes, on_pass : {None, StepIdAt[2]}, on_fail : {None}]

\* the steps of the second execution's workflow
OtherSteps ==
    {WorkflowStep(StepDbIds[1], StepIdAt[1],
                  <<"assign_tag", [key |-> "k", value |-> "w"]>>, None, None),
     WorkflowStep(StepDbIds[1], StepIdAt[1],
                  <<"remove_tag", [key |-> "k"]>>, None, None)}

\* the id of the second execution's row
OtherExecutionId == "e2"

\* the second call's context = StepContext(entity=entity.copy(), ...)
OtherStart(user_email) ==
    /\ other_context = <<>>
    /\ other_context' = <<[entity |-> EntityCopy(call.entity),
                           entity_name |-> call.entity_name,
                           entity_type |-> EntityType,
                           user_email |-> user_email,
                           execution_id |-> OtherExecutionId,
                           workflow_id |-> workflow.id,
                           workflow_name |-> workflow.name,
                           step_results |-> <<>>]>>
    /\ UNCHANGED <<workflow, updates, call, workflow_repo, executions, pc, run_vars,
                   returned, resume_call>>

\* the second execution's _execute_step(step, context): a handler instance
\* of its own, run on the second execution's context
OtherDispatch(s, env) ==
    /\ other_context # <<>>
    /\ LET effect == ExecuteStepEffect(s, other_context[1], heap, OtherTags, env)
       IN  /\ other_context' = <<[other_context[1] EXCEPT !.entity = effect.entity]>>
           /\ heap' = effect.heap
    /\ UNCHANGED <<workflow, updates, call, workflow_repo, executions, pc, context,
                   current_step_id, final_status, error_message, success_count,
                   failure_count, step, result, results, dispatched, raised, tags_after,
                   returned, resume_call>>

InitConc ==
    \E wf \in WorkflowsOf(ConcStepChoices), c \in TagCalls :
        InitRun(wf, Call(c[1], c[2], TRUE, c[3]), c[3])

NextConc ==
    \/ \E user_email \in UserEmails : StartExecute(user_email)
    \/ LoopExit
    \/ \E env \in Envs : DispatchStep(env)
    \/ RecordStepExecution
    \/ ChooseNextStep
    \/ Finalize
    \/ ReturnExecution
    \/ \E user_email \in UserEmails : OtherStart(user_email)
    \/ \E s \in OtherSteps, env \in Envs : OtherDispatch(s, env)

SpecConc == InitConc /\ [][NextConc]_vars

-----------------------------------------------------------------------------
(* Runs of workflows whose steps lack their required config key or have a *)
(* kind without a registered handler                                      *)

\* a step kind that WorkflowExecutor.HANDLERS does not register
UnknownKind == "webhook"

ConfigShapes ==
    {<<UnknownKind, EmptyDict>>,
     <<"validation", EmptyDict>>,
     <<"approval", EmptyDict>>,
     <<"notification", [template |-> "validation_failed"]>>,
     <<"assign_tag", [value |-> "v"]>>,
     <<"remove_tag", EmptyDict>>,
     <<"conditional", EmptyDict>>,
     <<"script", [language |-> "python"]>>,
     <<"policy_check", EmptyDict>>,
     <<"notification", [recipients |-> "requester"]>>,
     <<"policy_check", [policy_id |-> "p1"]>>,
     <<"policy_check", [policy_id |-> "p0"]>>,
     <<"policy_check", [policy_id |-> "p9"]>>}

ConfigStepChoices ==
    [shape : ConfigShapes, on_pass : {None, StepIdAt[2]},
     on_fail : {None, StepIdAt[2]}]

InitConfig == \E wf \in WorkflowsOf(ConfigStepChoices) : InitRun(wf, PlainCall, <<>>)

NextConfig ==
    \/ \E user_email \in UserEmails : StartExecute(user_email)
    \/ LoopExit
    \/ \E env \in Envs : DispatchStep(env)
    \/ RecordStepExecution
    \/ ChooseNextStep
    \/ Finalize
    \/ ReturnExecution

SpecConfig == InitConfig /\ [][NextConfig]_vars

-----------------------------------------------------------------------------
(* Runs of workflows of pass and fail steps that carry branches *)

MarkerShapes ==
    {<<"pass", EmptyDict>>,
     <<"fail", EmptyDict>>,
     <<"fail", [message |-> "rejected"]>>}

MarkerStepChoices ==
    [shape : MarkerShapes, on_pass : {None, StepIdAt[2]},
     on_fail : {None, StepIdAt[2]}]

InitMarkers ==
    \E wf \in WorkflowsOf(MarkerStepChoices) : InitRun(wf, PlainCall, <<>>)

NextMarkers ==
    \/ \E user_email \in UserEmails : StartExecute(user_email)
    \/ LoopExit
    \/ \E env \in Envs : DispatchStep(env)
    \/ RecordStepExecution
    \/ ChooseNextStep
    \/ Finalize
    \/ ReturnExecution

SpecMarkers == InitMarkers /\ [][NextMarkers]_vars

-----------------------------------------------------------------------------
(* Runs of workflows of python script steps on entities with and without *)
(* a tag mapping                                                         *)

ScriptShapes == {<<"script", [code |-> c]>> : c \in DOMAIN Scripts}

ScriptStepChoices ==
    [shape : ScriptShapes, on_pass : {None, StepIdAt[2]},
     on_fail : {None, StepIdAt[2]}]

InitScript ==
    \E wf \in WorkflowsOf(ScriptStepChoices), c \in TagCalls :
        InitRun(wf, Call(c[1], c[2], TRUE, c[3]), c[3])

NextScript ==
    \/ \E user_email \in UserEmails : StartExecute(user_email)
    \/ LoopExit
    \/ \E env \in Envs : DispatchStep(env)
    \/ RecordStepExecution
    \/ ChooseNextStep
    \/ Finalize
    \/ ReturnExecution

SpecScript == InitScript /\ [][NextScript]_vars

-----------------------------------------------------------------------------
(* Runs of two-step workflows whose second step may carry the step_id of *)
(* the first                                                             *)

DupShapes ==
    {<<"pass", EmptyDict>>,
     <<"fail", EmptyDict>>,
     <<"conditional", [condition |-> "c"]>>}

DupStepChoices ==
    [shape : DupShapes, on_pass : {None, StepIdAt[2]}, on_fail : {None, StepIdAt[2]}]

DupWorkflows ==
    {[id |-> "w1", name |-> "wf",
      steps |-> <<WorkflowStep(StepDbIds[1], StepIdAt[1], a.shape, a.on_pass, a.on_fail),
                  WorkflowStep(StepDbIds[2], sid, b.shape, b.on_pass, b.on_fail)>>] :
        a \in DupStepChoices, b \in DupStepChoices, sid \in StepIds}

InitDup == \E wf \in DupWorkflows : InitRun(wf, PlainCall, <<>>)

NextDup ==
    \/ \E user_email \in UserEmails : StartExecute(user_email)
    \/ LoopExit
    \/ StepNotFound
    \/ \E env \in Envs : DispatchStep(env)
    \/ RecordStepExecution
    \/ ChooseNextStep
    \/ Finalize
    \/ ReturnExecution

SpecDup == InitDup /\ [][NextDup]_vars

-----------------------------------------------------------------------------
(* Runs of workflows over every registered step kind and an unregistered *)
(* one, with a delivery service                                          *)

DeliveryOutcomes == {"uninitialized", "all", "some", "none"}

\* Envs with what the delivery service does during the dispatch
DeliveryEnvs ==
    {[eval |-> e.eval, message |-> e.message, fault |-> e.fault,
      raises |-> e.raises, now |-> e.now, delivery |-> d] :
        e \in {x \in Envs : x.now = Times[1]}, d \in DeliveryOutcomes}

AllKindShapes ==
    {<<"validation", [rule |-> "size>0"]>>,
     <<"approval", [approvers |-> "requester"]>>,
     <<"notification", [recipients |-> "requester"]>>,
     <<"assign_tag", [key |-> "k", value |-> "v"]>>,
     <<"remove_tag", [key |-> "k"]>>,
     <<"conditional", [condition |-> "c"]>>,
     <<"script", [code |-> "result = {'passed': False, 'message': 'bad'}"]>>,
     <<"pass", EmptyDict>>,
     <<"fail", EmptyDict>>,
     <<"policy_check", [policy_id |-> "p1"]>>,
     <<"delivery", [change_type |-> "grant"]>>,
     <<UnknownKind, EmptyDict>>}

AllKindStepChoices ==
    [shape : AllKindShapes, on_pass : {None, StepIdAt[2]},
     on_fail : {None, StepIdAt[2]}]

InitAllKinds ==
    \E wf \in WorkflowsOf(AllKindStepChoices) : InitRun(wf, PlainCall, <<>>)

NextAllKinds ==
    \/ \E user_email \in UserEmails : StartExecute(user_email)
    \/ LoopExit
    \/ \E env \in DeliveryEnvs : DispatchStep(env)
    \/ RecordStepExecution
    \/ PauseExecution
    \/ ChooseNextStep
    \/ Finalize
    \/ ReturnExecution

SpecAllKinds == InitAllKinds /\ [][NextAllKinds]_vars

-----------------------------------------------------------------------------
(* Runs that the process may stop at any point between two statements of *)
(* execute_workflow; what the repository has written stays               *)

\* the process stops during the call: the locals are gone, the rows remain
Crash ==
    /\ pc \in {"loop", "record", "update", "finalize", "return"}
    /\ pc' = "crashed"
    /\ UNCHANGED <<workflow, updates, call, other_context, workflow_repo,
                   executions, run_vars, returned, resume_call>>

InitCrash == \E wf \in Workflows : InitRun(wf, PlainCall, <<>>)

NextCrash ==
    \/ \E user_email \in UserEmails : StartExecute(user_email)
    \/ LoopExit
    \/ StepNotFound
    \/ \E env \in Envs : DispatchStep(env)
    \/ RecordStepExecution
    \/ PauseExecution
    \/ ChooseNextStep
    \/ Finalize
    \/ ReturnExecution
    \/ Crash

SpecCrash == InitCrash /\ [][NextCrash]_vars

-----------------------------------------------------------------------------
(* The interpreter loop followed without a limit on the dispatches *)

\* one iteration of the loop past MaxDispatch dispatches: what DispatchStep,
\* RecordStepExecution and PauseExecution / ChooseNextStep do to the position
\* of the run, its context and its status; the history, the step records and
\* the counters are no longer followed
LoopIterationUntracked(env) ==
    /\ pc = "loop"
    /\ Truthy(current_step_id)
    /\ current_step_id \in DOMAIN StepsById(workflow)
    /\ Len(dispatched) >= MaxDispatch
    /\ step' = StepsById(workflow)[current_step_id]
    /\ result' = ExecuteStep(step', context, env)
    /\ raised' = IF env.raises /\ step'.step_type \in HANDLERS THEN env.fault ELSE None
    /\ LET effect == ExecuteStepEffect(step', context, heap, RunTags, env)
       IN  /\ context' = StoreStepResult([context EXCEPT !.entity = effect.entity],
                                         step', result')
           /\ heap' = effect.heap
    /\ IF result'.blocking
       THEN /\ final_status' = PAUSED
            /\ executions' = Repo_update_status(executions, ExecutionId, PAUSED,
                                                current_step_id, success_count,
                                                failure_count, None, None)
            /\ pc' = "finalize"
            /\ UNCHANGED <<current_step_id, error_message>>
       ELSE /\ current_step_id' = NextStepId(step', result')
            /\ IF ~Truthy(current_step_id')
               THEN IF result'.passed
                    THEN final_status' = SUCCEEDED /\ error_message' = error_message
                    ELSE final_status' = FAILED
                         /\ error_message' = PyOr(result'.message, result'.error)
               ELSE UNCHANGED <<final_status, error_message>>
            /\ pc' = "loop"
            /\ UNCHANGED executions
    /\ UNCHANGED <<workflow, updates, call, other_context, workflow_repo, success_count,
                   failure_count, results, dispatched, tags_after, returned, resume_call>>

LiveStepChoices ==
    [shape : {<<"approval", [approvers |-> "requester"]>>,
              <<"conditional", [condition |-> "c"]>>},
     on_pass : Refs, on_fail : Refs]

InitLive == \E wf \in WorkflowsOf(LiveStepChoices) : InitRun(wf, PlainCall, <<>>)

NextLive ==
    \/ \E user_email \in UserEmails : StartExecute(user_email)
    \/ LoopExit
    \/ StepNotFound
    \/ \E env \in Envs : DispatchStep(env)
    \/ \E env \in Envs : LoopIterationUntracked(env)
    \/ RecordStepExecution
    \/ PauseExecution
    \/ ChooseNextStep
    \/ Finalize
    \/ ReturnExecution

\* execute_workflow runs in its caller's thread: a call that can take a step
\* takes it
LiveSpec == InitLive /\ [][NextLive]_vars /\ WF_vars(NextLive)

-----------------------------------------------------------------------------
(* Properties of execute_workflow and resume_workflow *)

\* the durable row of the run's execution and its step records
Created == ExecutionId \in DOMAIN executions
Row == executions[ExecutionId]
Records == IF Created THEN Row.step_executions ELSE <<>>

\* the call has passed the finalizing update
Finished == pc \in {"return", "done"}

\* the branch the interpreter takes after the last dispatched step
Branch == IF result.passed THEN step.on_pass ELSE step.on_fail

\* C1: whenever a dispatched step returned blocking=true, the execution is
\* persisted with status PAUSED and current_step_id equal to that step's
\* step_id, whatever passed, on_pass and on_fail are
C1_BlockingPauses ==
    (pc \in {"finalize", "return", "done"} /\ dispatched # <<>> /\ result.blocking)
        => /\ Row.status = PAUSED
           /\ Row.current_step_id = step.step_id
           /\ dispatched[Len(dispatched)] = step

C1_Witness ==
    /\ pc = "done"
    /\ result.blocking
    /\ Truthy(step.on_pass)
    /\ Truthy(step.on_fail)
    /\ returned[1].status = PAUSED
    /\ returned[1].current_step_id = step.step_id

\* C2: when the branch selected by a non-blocking step's outcome is absent,
\* the run terminates at that step: SUCCEEDED if the outcome passed, FAILED
\* otherwise, also when the other branch is set
C2_AbsentBranchTerminates ==
    /\ \A i \in 1..Len(Records) :
          ~Truthy(IF Records[i].passed THEN dispatched[i].on_pass
                  ELSE dispatched[i].on_fail)
             => i = Len(dispatched)
    /\ (Finished /\ dispatched # <<>> /\ ~result.blocking /\ ~Truthy(Branch))
          => /\ Row.status = (IF result.passed THEN SUCCEEDED ELSE FAILED)
             /\ returned # <<>> => returned[1].status = Row.status

C2_Witness ==
    /\ pc = "done"
    /\ step.step_type = "conditional"
    /\ ~result.passed
    /\ result.error = None
    /\ ~Truthy(step.on_fail)
    /\ Truthy(step.on_pass)
    /\ Row.status = FAILED
    /\ \A i \in 1..Len(dispatched) : dispatched[i].step_type # "fail"

\* C3: after execute_workflow has returned, the persisted success_count +
\* failure_count is the number of steps whose handler was dispatched
C3_TalliesCountDispatches ==
    pc = "done" => Row.success_count + Row.failure_count = Len(dispatched)

C3_Witness ==
    /\ pc = "done"
    /\ Len(dispatched) >= 1
    /\ Len(dispatched) # Len(workflow.steps)
    /\ Row.success_count + Row.failure_count = Len(dispatched)

\* C4: the step records of an execution are one per dispatch performed, in
\* dispatch order, and every step of execute_workflow / resume_workflow
\* leaves the existing records as they are, at most appending to them
C4_RecordsAppendOnly ==
    /\ [](/\ pc # "record" => Len(Records) = Len(dispatched)
          /\ \A i \in 1..Len(Records) : Records[i].step_id = dispatched[i].id)
    /\ [][/\ Len(Records') >= Len(Records)
          /\ SubSeq(Records', 1, Len(Records)) = Records]_vars

C4_Witness ==
    /\ resume_call # <<>>
    /\ resume_call[1].ret # <<>>
    /\ Len(Records) = 2
    /\ Len(resume_call[1].ret[1].step_executions) = 2

\* C5: resume_workflow(execution_id, step_result=false) on an execution
\* PAUSED at a step without on_fail makes the execution FAILED
C5_ResumeRejectedFails ==
    (/\ resume_call # <<>>
     /\ resume_call[1].ret # <<>>
     /\ ~resume_call[1].step_result
     /\ ~Truthy(step.on_fail))
        => Row.status = FAILED

\* C6: resume_workflow on an execution PAUSED at step S whose workflow exists
\* continues the loop: the execution leaves PAUSED and the next step
\* dispatched is S.on_pass or S.on_fail, by step_result
C6_ResumeContinues ==
    (resume_call # <<>> /\ resume_call[1].ret # <<>>)
        => LET paused_step == StepsById(workflow)[Row.current_step_id]
               next == IF resume_call[1].step_result
                       THEN paused_step.on_pass ELSE paused_step.on_fail
           IN  /\ Row.status # PAUSED
               /\ (Truthy(next) /\ next \in DOMAIN StepsById(workflow)
                     /\ Len(dispatched) < MaxDispatch)
                    => dispatched[Len(dispatched)] = StepsById(workflow)[next]

\* when resume_workflow(execution_id, ...) returns None
ResumeRefuses(execution_id) ==
    \/ execution_id \notin DOMAIN executions
    \/ executions[execution_id].status # PAUSED
    \/ executions[execution_id].workflow_id \notin workflow_repo

\* C7: resume_workflow returns None and leaves the durable execution record
\* unchanged when the execution does not exist, is not PAUSED, or its
\* workflow cannot be found
C7_ResumeNoOp ==
    [][\A execution_id \in {ExecutionId, UnknownExecutionId} :
          (/\ pc = "done" /\ pc' = "done"
           /\ resume_call' # resume_call
           /\ resume_call'[1].execution_id = execution_id
           /\ ResumeRefuses(execution_id))
             => /\ resume_call'[1].ret = <<>>
                /\ executions' = executions]_vars

C7_Witness ==
    /\ resume_call # <<>>
    /\ resume_call[1].execution_id = ExecutionId
    /\ resume_call[1].ret = <<>>
    /\ Row.status = PAUSED
    /\ workflow_repo = {}

\* the run ended on a branch that names no step of the workflow
EndedOnMissingStep ==
    /\ Finished
    /\ Truthy(current_step_id)
    /\ current_step_id \notin DOMAIN StepsById(workflow)

\* C8: when the chosen branch names a step_id the workflow does not have,
\* the run ends FAILED with "Step not found: <id>"; the missing step gets no
\* record and no tally, and the records and tallies of the steps dispatched
\* before it are kept
C8_MissingStepFails ==
    EndedOnMissingStep
        => /\ Row.status = FAILED
           /\ Row.error_message = "Step not found: " \o current_step_id
           /\ Len(Records) = Len(dispatched)
           /\ Row.success_count =
                Cardinality({i \in 1..Len(Records) : Records[i].passed})
           /\ Row.failure_count =
                Cardinality({i \in 1..Len(Records) : ~Records[i].passed})

C8_Witness ==
    /\ pc = "done"
    /\ EndedOnMissingStep
    /\ current_step_id = DanglingId
    /\ Len(Records) = 2
    /\ returned[1].error_message = "Step not found: zz"
    /\ returned[1].success_count = 1
    /\ returned[1].failure_count = 1

\* C9: execute_workflow on a workflow without steps dispatches nothing,
\* appends no step record, and leaves the execution SUCCEEDED
C9_EmptyWorkflowSucceeds ==
    (pc = "done" /\ Len(workflow.steps) = 0)
        => /\ dispatched = <<>>
           /\ Records = <<>>
           /\ Row.status = SUCCEEDED

\* C10: a fault raised by a step handler does not leave the loop: the step
\* is recorded with passed=false and the fault text as error_message,
\* failure_count is incremented, and the run continues with the step's
\* on_fail, ending FAILED when on_fail is absent
C10_HandlerFaultContained ==
    /\ []((pc = "update" /\ raised # None)
            => /\ ~result.passed
               /\ Records[Len(Records)] =
                    [step_id |-> step.id, status |-> FAILED, passed |-> FALSE,
                     result_data |-> NoData, error_message |-> raised])
    /\ [][(pc = "update" /\ raised # None)
            => /\ pc' = "loop"
               /\ failure_count' = failure_count + 1
               /\ success_count' = success_count
               /\ current_step_id' = step.on_fail
               /\ ~Truthy(step.on_fail) => final_status' = FAILED]_vars
    /\ []((Finished /\ raised # None /\ ~Truthy(step.on_fail))
            => Row.status = FAILED /\ Row.failure_count >= 1)

C10_Witness ==
    /\ pc = "done"
    /\ Len(dispatched) = 2
    /\ raised # None
    /\ dispatched[1].step_type = "approval"
    /\ Records[1].error_message = "boom"
    /\ dispatched[2].step_id = dispatched[1].on_fail
    /\ Row.status = FAILED
    /\ Row.error_message = raised
    /\ Row.failure_count = 2

\* C11: after an execute_workflow run the caller's entity is as it was when
\* the call was made, its nested tag mapping included
C11_CallerEntityUnchanged ==
    TagsOf(call.entity, heap) = call.tags_at_call

\* C12: every execute_workflow run, also of a workflow whose on_pass/on_fail
\* edges form a cycle, eventually stops dispatching and returns (SUCCEEDED,
\* FAILED or PAUSED)
C12_RunStops == <>(pc = "done")

\* C13: within one execute_workflow run no step is dispatched twice
C13_StepDispatchedOnce ==
    \A i, j \in 1..Len(dispatched) : dispatched[i].id = dispatched[j].id => i = j

\* C14: when execute_workflow returns for a workflow with at least one step,
\* the persisted status is SUCCEEDED, FAILED or PAUSED, never RUNNING
C14_ReturnsSettled ==
    (pc = "done" /\ Len(workflow.steps) >= 1)
        => /\ Row.status \in {SUCCEEDED, FAILED, PAUSED}
           /\ returned[1].status = Row.status

C14_Witness ==
    /\ pc = "done"
    /\ Len(workflow.steps) = 2
    /\ EndedOnMissingStep
    /\ returned[1].status = FAILED

\* C15: every execution that execute_workflow ends FAILED has a non-empty
\* error_message persisted
C15_FailedHasMessage ==
    (pc = "done" /\ Row.status = FAILED) => Truthy(Row.error_message)

\* the step the i-th dispatch of the run was sent to by its predecessor's
\* failure: the predecessor failed and its on_fail names a step
FailedInto(i) ==
    /\ i \in 2..Len(Records)
    /\ ~Records[i - 1].passed
    /\ Truthy(dispatched[i - 1].on_fail)
    /\ dispatched[i - 1].on_fail \in DOMAIN StepsById(workflow)

\* C16: when a step fails and its on_fail names an existing step, that step
\* is dispatched next; when it is a fail step without on_fail the run ends
\* FAILED there, after two dispatches with two records (the first with
\* passed=false) and failure_count 2
C16_FailBranchTaken ==
    /\ \A i \in 2..Len(dispatched) :
          ~Records[i - 1].passed
             => /\ Truthy(dispatched[i - 1].on_fail)
                /\ dispatched[i] = StepsById(workflow)[dispatched[i - 1].on_fail]
    /\ (/\ Finished
        /\ FailedInto(2)
        /\ dispatched[2].step_type = "fail"
        /\ ~Truthy(dispatched[2].on_fail))
          => /\ Row.status = FAILED
             /\ Len(Records) = 2
             /\ ~Records[1].passed /\ ~Records[2].passed
             /\ Records[2].step_id = dispatched[2].id
             /\ Row.failure_count = 2
             /\ Row.success_count = 0

C16_Witness ==
    /\ pc = "done"
    /\ Len(workflow.steps) = 2
    /\ workflow.steps[1].step_type = "validation"
    /\ workflow.steps[1].on_fail = workflow.steps[2].step_id
    /\ workflow.steps[2].step_type = "fail"
    /\ workflow.steps[2].on_fail = None
    /\ Len(returned[1].step_executions) = 2
    /\ ~returned[1].step_executions[1].passed
    /\ returned[1].step_executions[1].error_message = None
    /\ returned[1].status = FAILED
    /\ returned[1].failure_count = 2

\* the approvers specification of an approval step is not empty
HasApprovers(s) == s.step_type = "approval" /\ Get(s.config, "approvers", "") # ""

\* C17: an approval step with a non-empty approvers specification returns
\* passed=true and blocking=true: its record has passed=true, it is counted
\* in success_count, and the run ends PAUSED at it without dispatching its
\* on_pass or on_fail
C17_ApprovalPauses ==
    (dispatched # <<>> /\ HasApprovers(step) /\ raised = None)
        => /\ result.passed /\ result.blocking
           /\ pc \notin {"loop", "record"}
                => /\ Records[Len(Records)].passed
                   /\ Records[Len(Records)].status = SUCCEEDED
           /\ pc \in {"finalize", "return", "done"}
                => /\ Row.status = PAUSED
                   /\ Row.current_step_id = step.step_id
                   /\ dispatched[Len(dispatched)] = step
                   /\ Row.success_count =
                        Cardinality({i \in 1..Len(Records) : Records[i].passed})
                   /\ Row.success_count >= 1

C17_Witness ==
    /\ pc = "done"
    /\ HasApprovers(step)
    /\ Truthy(step.on_pass) /\ Truthy(step.on_fail)
    /\ Len(dispatched) = 1
    /\ returned[1].status = PAUSED
    /\ returned[1].success_count = 1
    /\ returned[1].step_executions[1].passed

\* C20: execute_workflow(..., blocking=False) queues the workflow instead of
\* running it: no step handler is dispatched before the call returns
C20_NonBlockingQueues ==
    (pc = "done" /\ ~call.blocking) => dispatched = <<>>

\* the run dispatched the same assign_tag / remove_tag step (same kind, same
\* config) twice in a row: tags_after[1] is the tag mapping after executing
\* it once on the starting entity, tags_after[2] after executing it twice
TagStepTwice ==
    /\ Len(dispatched) = 2
    /\ dispatched[1].step_type \in {"assign_tag", "remove_tag"}
    /\ dispatched[1].step_type = dispatched[2].step_type
    /\ dispatched[1].config = dispatched[2].config

\* C18 as stated: executing the same assign_tag or remove_tag step twice
\* gives the same final tag mapping as executing it once, for every config
\* and every value_source, timestamp included
C18_TagStepIdempotent ==
    TagStepTwice => tags_after[2] = tags_after[1]

\* C18 amended: executing the same assign_tag or remove_tag step twice gives
\* the same final tag mapping as executing it once, for an explicit value
\* and for the value sources current_user, project_name and entity_name; the
\* value source timestamp is excluded (it resolves to the time of each call)
C18_TagStepIdempotentButTimestamp ==
    (TagStepTwice /\ Get(dispatched[1].config, "value_source", None) # "timestamp")
        => tags_after[2] = tags_after[1]

C18_Witness ==
    /\ TagStepTwice
    /\ dispatched[1].step_type = "assign_tag"
    /\ Get(dispatched[1].config, "value_source", None) = "current_user"
    /\ raised = None
    /\ call.tags_at_call = <<("k" :> "old")>>
    /\ tags_after[1] = <<("k" :> "u@x.com")>>
    /\ tags_after[2] = tags_after[1]

\* C19: two executions interleaved step by step share no mutable context
\* state: the tag mapping the run's context shows is always the one its own
\* last step left, whatever the steps of the other execution assign or
\* remove, also when both were started from one caller entity with a tags
\* mapping
C19_ExecutionsIsolated ==
    (dispatched # <<>> /\ pc # "start")
        => TagsOf(context.entity, heap) = tags_after[Len(tags_after)]

\* the (passed, blocking) of the outcome of each dispatch of the run
Outcomes ==
    [i \in 1..Len(results) |->
        [passed |-> results[i].passed, blocking |-> results[i].blocking]]

\* the run that the workflow and a sequence of (passed, blocking) outcomes
\* determine when the next step depends only on the current step's passed
\* value and its on_pass / on_fail: the step ids dispatched from cur on, the
\* tallies, the final status and the current_step_id of a pause
RECURSIVE RunOn(_, _, _, _)
RunOn(wf, outs, cur, acc) ==
    IF ~Truthy(cur) THEN acc
    ELSE IF cur \notin DOMAIN StepsById(wf) THEN [acc EXCEPT !.status = FAILED]
    ELSE IF outs = <<>> THEN [acc EXCEPT !.status = "unfinished"]
    ELSE
        LET s == StepsById(wf)[cur]
            o == Head(outs)
            nxt == IF o.passed THEN s.on_pass ELSE s.on_fail
            acc1 == [acc EXCEPT
                       !.step_ids = Append(@, cur),
                       !.success_count = IF o.passed THEN @ + 1 ELSE @,
                       !.failure_count = IF o.passed THEN @ ELSE @ + 1]
        IN  IF o.blocking THEN
                [acc1 EXCEPT !.status = PAUSED, !.current_step_id = cur]
            ELSE
                RunOn(wf, Tail(outs), nxt,
                      [acc1 EXCEPT !.status =
                          IF Truthy(nxt) THEN @
                          ELSE IF o.passed THEN SUCCEEDED ELSE FAILED])

RunOf(wf, outs) ==
    RunOn(wf, outs,
          IF Len(wf.steps) > 0 THEN wf.steps[1].step_id ELSE None,
          [step_ids |-> <<>>, success_count |-> 0, failure_count |-> 0,
           status |-> RUNNING, current_step_id |-> None])

\* C21: branch resolution is deterministic: the sequence of step ids a run
\* dispatched, and the status, tallies and current_step_id it returned, are
\* those determined by the workflow and the (passed, blocking) outcomes of
\* its steps, so two runs of a workflow with the same outcomes agree on them
C21_BranchesDeterministic ==
    pc = "done"
        => LET run == RunOf(workflow, Outcomes)
           IN  /\ [i \in 1..Len(dispatched) |-> dispatched[i].step_id] = run.step_ids
               /\ returned[1].status = run.status
               /\ returned[1].success_count = run.success_count
               /\ returned[1].failure_count = run.failure_count
               /\ returned[1].current_step_id = run.current_step_id

C21_Witness ==
    /\ pc = "done"
    /\ Len(dispatched) = 2
    /\ results[1].passed /\ ~results[2].passed
    /\ results[1].message # results[2].message
    /\ dispatched[1].on_pass = dispatched[2].step_id
    /\ dispatched[1].on_fail # dispatched[1].on_pass
    /\ returned[1].status = FAILED

\* C22: the record of every dispatched step is appended before the blocking
\* check and the branch choice: when the record of the last dispatch is
\* still to be written (pc = "record") the records are those of the earlier
\* dispatches, and from then on - before any status update of the run and
\* before the next dispatch - there is one record per dispatch, in the
\* dispatch order
C22_RecordBeforeBranch ==
    Created
        => /\ Len(Records) = (IF pc = "record" THEN Len(dispatched) - 1
                               ELSE Len(dispatched))
           /\ \A i \in 1..Len(Records) :
                 /\ Records[i].step_id = dispatched[i].id
                 /\ Records[i].passed = results[i].passed
           /\ pc \in {"record", "update"}
                 => /\ Len(updates) = 0
                    /\ Row.status = RUNNING
                    /\ current_step_id = step.step_id

C22_Witness ==
    /\ pc = "update"
    /\ Len(dispatched) = 2
    /\ Len(Records) = 2
    /\ Records[1].step_id # Records[2].step_id
    /\ Records[2].step_id = dispatched[2].id
    /\ result.blocking

\* C23: if the process crashes at any point of a run, every step whose
\* handler was invoked before the crash has a step record in the durable
\* history
C23_CrashLosesNoStep ==
    pc = "crashed"
        => /\ Len(Records) = Len(dispatched)
           /\ \A i \in 1..Len(dispatched) : Records[i].step_id = dispatched[i].id

\* C24: in every reachable state of a run, between two dispatches included,
\* the persisted success_count + failure_count of the execution equals the
\* number of step records appended for it
C24_TalliesFollowRecords ==
    Created => Row.success_count + Row.failure_count = Len(Records)

\* C25: a run that pauses is not re-finalized: execute_workflow performs
\* exactly one status update for it, the PAUSED one, without finished_at and
\* without error_message, and the row it returns has neither; a run that
\* does not end PAUSED gets exactly the finalizing update, with finished_at
C25_PausedNotRefinalized ==
    Finished
        => /\ Len(updates) = 1
           /\ updates[1].status = final_status
           /\ Row.status = final_status
           /\ IF final_status = PAUSED
              THEN /\ updates[1].finished_at = None
                   /\ updates[1].error_message = None
                   /\ Row.finished_at = None
                   /\ Row.error_message = None
              ELSE /\ updates[1].finished_at # None
                   /\ Row.finished_at # None

C25_Witness ==
    /\ pc = "done"
    /\ returned[1].status = PAUSED
    /\ returned[1].finished_at = None
    /\ Len(updates) = 1
    /\ Len(dispatched) = 2

\* C26: once status PAUSED is persisted for a run, the run dispatches no
\* further step and appends no further step record
C26_PausedRunStops ==
    [][(Created /\ Row.status = PAUSED)
          => /\ dispatched' = dispatched
             /\ executions'[ExecutionId].step_executions = Row.step_executions
             /\ executions'[ExecutionId].status = PAUSED]_vars

\* a returned paused run whose paused step names an existing, not yet
\* dispatched step on its on_pass branch
C26_Witness ==
    /\ pc = "done"
    /\ returned[1].status = PAUSED
    /\ Len(dispatched) = 1
    /\ Len(workflow.steps) = 2
    /\ step.on_pass = workflow.steps[2].step_id
    /\ Len(returned[1].step_executions) = 1
    /\ resume_call # <<>>

\* C27: when a run ends FAILED because its last step failed with no on_fail,
\* the execution's error_message is that outcome's message when the message
\* is present and non-empty, and otherwise the outcome's error
C27_ErrorMessageFromOutcome ==
    (/\ Finished
     /\ Row.status = FAILED
     /\ dispatched # <<>>
     /\ ~result.passed
     /\ ~Truthy(step.on_fail))
        => Row.error_message =
             (IF result.message # None /\ result.message # ""
              THEN result.message ELSE result.error)

\* a returned FAILED run whose last outcome had a message and no error
C27_Witness ==
    /\ pc = "done"
    /\ returned[1].status = FAILED
    /\ ~result.passed
    /\ ~Truthy(step.on_fail)
    /\ result.message = "rule message"
    /\ result.error = None
    /\ returned[1].error_message = "rule message"

\* the i-th dispatch of the run is followed by the branch on_fail: the run
\* went on with the step on_fail names, or ended there when it names none
TookOnFail(i) ==
    IF Truthy(dispatched[i].on_fail)
    THEN \/ /\ i < Len(dispatched)
            /\ dispatched[i + 1].step_id = dispatched[i].on_fail
         \/ /\ i = Len(dispatched)
            /\ pc \in {"record", "update", "loop"}
            /\ pc = "loop" => current_step_id = dispatched[i].on_fail
    ELSE /\ i = Len(dispatched)
         /\ pc = "loop" => current_step_id = None
         /\ Finished => Row.status = FAILED

\* the number of dispatches whose outcome the counters have taken in
Tallied == IF pc \in {"record", "update"} THEN Len(results) - 1 ELSE Len(results)

\* the i-th dispatch of the run gave a failed, non-blocking outcome with an
\* error text, was recorded as a failed step and tallied as a failure
FailedStep(i) ==
    /\ ~results[i].passed
    /\ ~results[i].blocking
    /\ Truthy(results[i].error)
    /\ (i < Len(dispatched) \/ pc # "record")
          => /\ Records[i].passed = FALSE
             /\ Records[i].status = FAILED
             /\ Records[i].error_message = results[i].error
    /\ i <= Tallied
          => failure_count = Cardinality({j \in 1..Tallied : ~results[j].passed})

MissingKeyError ==
    [validation |-> "No rule configured",
     approval |-> "No approvers configured",
     notification |-> "No recipients configured",
     assign_tag |-> "No tag key configured",
     remove_tag |-> "No tag key configured",
     conditional |-> "No condition configured",
     script |-> "No code configured",
     policy_check |-> "No policy_id configured"]

\* the config key each kind requires
RequiredKey ==
    [validation |-> "rule", approval |-> "approvers",
     notification |-> "recipients", assign_tag |-> "key", remove_tag |-> "key",
     conditional |-> "condition", script |-> "code", policy_check |-> "policy_id"]

LacksRequiredKey(s) ==
    /\ s.step_type \in DOMAIN RequiredKey
    /\ RequiredKey[s.step_type] \notin DOMAIN s.config

LastDispatchOf(id, n) ==
    CHOOSE i \in 1..n :
        /\ dispatched[i].step_id = id
        /\ \A j \in (i + 1)..n : dispatched[j].step_id # id

\* context.step_results holds an entry for exactly the step ids of the first
\* n dispatches, each with the passed, message and data of the most recent
\* outcome of that step
StepResultsOf(n) ==
    /\ DOMAIN context.step_results = {dispatched[i].step_id : i \in 1..n}
    /\ \A id \in DOMAIN context.step_results :
          LET r == results[LastDispatchOf(id, n)]
          IN  context.step_results[id] =
                [passed |-> r.passed, message |-> r.message, data |-> r.data]

\* C30: at the moment a step's handler is dispatched, context.step_results
\* has an entry for exactly the step ids dispatched earlier in the run, each
\* holding the most recent outcome of that step; the outcome of a step is
\* merged before the blocking check, so the context of a paused run holds
\* the blocking step's result
C30_StepResultsAccumulate ==
    /\ pc = "record" => StepResultsOf(Len(dispatched) - 1)
    /\ pc = "update" => StepResultsOf(Len(dispatched) - 1)
    /\ pc \in {"loop", "finalize", "return", "done"} => StepResultsOf(Len(dispatched))
    /\ (pc \in {"finalize", "return", "done"} /\ final_status = PAUSED)
          => /\ step.step_id \in DOMAIN context.step_results
             /\ context.step_results[step.step_id].passed = result.passed
             /\ context.step_results[step.step_id].message = result.message

\* the second dispatch of a step that was run before with another outcome
C30_Witness ==
    /\ pc = "record"
    /\ Len(dispatched) = 2
    /\ dispatched[1] = dispatched[2]
    /\ results[1] # results[2]
    /\ DOMAIN context.step_results = {dispatched[1].step_id}
    /\ context.step_results[dispatched[1].step_id].passed = results[1].passed

\* C31: the step_id stored in each step record is the workflow-local
\* step_id of the dispatched step, the identifier that keys
\* context.step_results and that current_step_id holds at a pause
C31_RecordHoldsLocalStepId ==
    \A i \in 1..Len(Records) :
        /\ Records[i].step_id = dispatched[i].step_id
        /\ Records[i].step_id \in DOMAIN context.step_results
                \/ (i = Len(dispatched) /\ pc = "update")

\* C32: pass and fail steps are terminal markers: a pass step yields
\* passed=true, a fail step yields passed=false with its configured message
\* or "Workflow failed", and after a pass or fail step is dispatched the run
\* ends (SUCCEEDED after pass, FAILED after fail) without dispatching any
\* further step, whatever on_pass / on_fail the step carries
C32_MarkersTerminate ==
    \A i \in 1..Len(dispatched) :
        (dispatched[i].step_type \in {"pass", "fail"} /\ (i < Len(dispatched) \/ raised = None))
            => /\ results[i].passed = (dispatched[i].step_type = "pass")
               /\ dispatched[i].step_type = "fail"
                     => results[i].message =
                          Get(dispatched[i].config, "message", "Workflow failed")
               /\ i = Len(dispatched)
               /\ pc = "loop" => current_step_id = None
               /\ Finished
                     => Row.status = (IF dispatched[i].step_type = "pass"
                                      THEN SUCCEEDED ELSE FAILED)

\* the run's tag mapping before its i-th dispatch
TagsBefore(i) == IF i = 1 THEN call.tags_at_call ELSE tags_after[i - 1]

\* the key of the tag step is not in the tag mapping (or there is none)
KeyAbsent(s, tags) ==
    tags = <<>> \/ Get(s.config, "key", "") \notin DOMAIN tags[1]

\* C33: a remove_tag step whose key is absent from the entity's tags returns
\* passed=true and leaves the entity unchanged, and an assign_tag step that
\* fails (no key, an unresolvable value_source, an empty or absent value)
\* returns passed=false and leaves the entity's tag mapping unchanged
C33_TagNoOps ==
    \A i \in 1..Len(dispatched) :
        /\ (/\ dispatched[i].step_type = "remove_tag"
            /\ "key" \in DOMAIN dispatched[i].config
            /\ KeyAbsent(dispatched[i], TagsBefore(i))
            /\ results[i].error = None)
              => /\ results[i].passed
                 /\ tags_after[i] = TagsBefore(i)
        /\ (dispatched[i].step_type = "assign_tag" /\ ~results[i].passed)
              => tags_after[i] = TagsBefore(i)
        /\ (/\ dispatched[i].step_type = "assign_tag"
            /\ \/ "key" \notin DOMAIN dispatched[i].config
               \/ Get(dispatched[i].config, "value_source", None) = "owner"
               \/ DOMAIN dispatched[i].config = {"key"})
              => ~results[i].passed

\* an assign_tag step whose value source resolves nothing, run on an entity
\* without tags, and a remove_tag step run after it on the absent key
C33_Witness ==
    /\ Len(dispatched) = 2
    /\ dispatched[1].step_type = "remove_tag"
    /\ "key" \in DOMAIN dispatched[1].config
    /\ results[1].passed
    /\ call.tags_at_call = <<EmptyDict>>
    /\ tags_after[1] = <<EmptyDict>>
    /\ dispatched[2].step_type = "assign_tag"
    /\ Get(dispatched[2].config, "value_source", None) = "current_user"
    /\ ~results[2].passed
    /\ raised = None
    /\ tags_after[2] = <<EmptyDict>>

\* C34: a python script step runs with a read-only projection of the
\* context visible to its code: a script that reads the entity gets the
\* run's entity (here: whether it has tags) and one that reads the prior
\* step results gets them, and nothing the script does changes
\* context.entity or context.step_results
C34_ScriptReadsContext ==
    \A i \in 1..Len(dispatched) :
        (/\ dispatched[i].step_type = "script"
         /\ Get(dispatched[i].config, "code", "") \in DOMAIN Scripts
         /\ (i < Len(dispatched) \/ raised = None))
            => LET script == Scripts[dispatched[i].config.code]
               IN  /\ script.reads = "entity"
                         => /\ results[i].error = None
                            /\ results[i].passed = (TagsBefore(i) # <<>>)
                   /\ script.reads = "step_results"
                         => /\ results[i].error = None
                            /\ results[i].passed = (i = 1)
                   /\ tags_after[i] = TagsBefore(i)

\* C35: the interpreter only reads the workflow definition: no step of an
\* execute_workflow run changes the workflow's steps sequence or any step's
\* step_id, kind, config, on_pass or on_fail
C35_WorkflowOnlyRead == [][workflow' = workflow]_vars

\* a returned run that dispatched both steps of its workflow and followed a
\* branch of the first
C35_Witness ==
    /\ pc = "done"
    /\ Len(dispatched) = 2
    /\ workflow.steps = dispatched
    /\ dispatched[2].step_id \in {dispatched[1].on_pass, dispatched[1].on_fail}

\* C36: for every non-empty workflow the first step dispatched is the first
\* element of workflow.steps itself, also when a later step of the sequence
\* carries the same step_id
C36_FirstStepIsEntry ==
    dispatched # <<>> => dispatched[1] = workflow.steps[1]

\* the number of the first n outcomes of the run that passed
PassedAmong(n) == Cardinality({i \in 1..n : results[i].passed})

\* C37: at the end of every run success_count is the number of step records
\* with passed=true (status SUCCEEDED) and failure_count the number with
\* passed=false (status FAILED); each dispatched step has incremented
\* exactly one of the two counters by one, whichever branch was then taken
C37_TalliesMatchRecords ==
    /\ success_count = PassedAmong(Tallied)
    /\ failure_count = Tallied - PassedAmong(Tallied)
    /\ Finished
          => /\ Row.success_count =
                  Cardinality({i \in 1..Len(Records) :
                      Records[i].passed /\ Records[i].status = SUCCEEDED})
             /\ Row.failure_count =
                  Cardinality({i \in 1..Len(Records) :
                      ~Records[i].passed /\ Records[i].status = FAILED})
             /\ Row.success_count + Row.failure_count = Len(Records)

\* a returned run with a failed step followed along on_fail by a passed one
C37_Witness ==
    /\ pc = "done"
    /\ Len(returned[1].step_executions) = 2
    /\ ~returned[1].step_executions[1].passed
    /\ returned[1].step_executions[2].passed
    /\ returned[1].success_count = 1
    /\ returned[1].failure_count = 1

\* C38: the only step kind that can suspend a run is approval: the outcome
\* of every other kind, of an unregistered kind and of a handler that raises
\* has blocking=false, so an execution is PAUSED only with current_step_id
\* naming an approval step
C38_OnlyApprovalSuspends ==
    /\ \A i \in 1..Len(dispatched) :
          results[i].blocking => dispatched[i].step_type = "approval"
    /\ (dispatched # <<>> /\ raised # None) => ~result.blocking
    /\ (Created /\ Row.status = PAUSED)
          => /\ Row.current_step_id \in DOMAIN StepsById(workflow)
             /\ StepsById(workflow)[Row.current_step_id].step_type = "approval"

\* a run paused at an approval step that it reached through a delivery step
C38_Witness ==
    /\ pc = "done"
    /\ returned[1].status = PAUSED
    /\ Len(dispatched) = 2
    /\ dispatched[1].step_type = "delivery"
    /\ results[1].passed
    /\ dispatched[2].step_type = "approval"
    /\ returned[1].current_step_id = dispatched[2].step_id


\* C39: an approval step pauses the run only when its approvers
\* specification resolved to at least one address: with approvers
\* "requester" and no actor email the run is not left PAUSED
C39_PausesOnlyWithApprovers ==
    (Created /\ Row.status = PAUSED /\ dispatched # <<>>)
        => ApprovalStepHandler_resolve_approvers(
               Get(step.config, "approvers", ""), context) # <<>>

\* C40: an execution that ends SUCCEEDED has no error_message persisted,
\* also when earlier steps failed and the run went on along on_fail: every
\* status update that carries an error_message carries status FAILED
C40_SucceededHasNoError ==
    /\ (Created /\ Row.status = SUCCEEDED) => Row.error_message = None
    /\ final_status = SUCCEEDED => error_message = None
    /\ \A i \in 1..Len(updates) :
          updates[i].error_message # None => updates[i].status = FAILED
    /\ pc = "done" /\ returned[1].status = SUCCEEDED
          => returned[1].error_message = None

\* a run that ended SUCCEEDED after its first step failed and its on_fail
\* branch was taken
C40_Witness ==
    /\ pc = "done"
    /\ returned[1].status = SUCCEEDED
    /\ returned[1].failure_count = 1
    /\ Len(dispatched) = 2
    /\ ~results[1].passed
    /\ results[2].passed
    /\ returned[1].error_message = None

====
